---- MODULE Spec2Model ----
(***************************************************************************)
(* Verification model of the speed-reading backend.                        *)
(*                                                                         *)
(*  Part I   the question-generation coordinator                           *)
(*           (api/reading.py, services/reading_service.py,                 *)
(*            services/ai_service.py)                                      *)
(*  Part II  the segmenter (services/book_processor.py)                   *)
(*  Part III ingestion, paragraph edits and upload rollback                *)
(*           (api/books.py, services/book_processor.py)                    *)
(*                                                                         *)
(* The registry of generation tasks is keyed by paragraph id and no        *)
(* operation reads or writes another key than its own; Part I therefore    *)
(* follows one paragraph id.  The repository holds two copies of the       *)
(* coordinator, each with a registry and a lock of its own: the one the    *)
(* router uses (api/reading.py) and the service module                     *)
(* (services/reading_service.py).  The variable impl says which of the two *)
(* a behaviour runs; the handlers differ where the sources differ.         *)
(***************************************************************************)
EXTENDS Integers, Sequences, FiniteSets, TLC

(* ---------------------------------------------------------------- bounds *)
\* request threads that call the handlers concurrently
NumClients == 2
\* background threads that can be alive at the same time
NumThreads == 2
\* the count of started threads saturates here
MaxSpawned == 2
\* question rows the store holds at most: a commit that would exceed it fails
MaxRows == 10
\* text lines in one block element of a document
MaxLines == 2
\* block elements in one document
MaxElems == 2
\* lines of a document without block elements
MaxTextLines == 3
\* block elements in an uploaded book
MaxBookElems == 3
\* block elements in a document of short blocks
MaxBlocks == 4
\* nodes (elements and text nodes) in a markup tree
MaxNodes == 4
\* _save_image_bytes calls in one process_book run
MaxRelocations == 3
\* process_book runs
MaxIngestions == 2

(* ------------------------------------------------------ program constants *)
max_retries == 2
\* _split_html_paragraphs / _split_text_paragraphs: `< 1000`
LowWaterMark == 1000
\* _split_oversized_paragraphs(paragraphs, max_text_length=4000)
max_text_length == 4000
\* len("<p>") + len("</p>")
WrapLength == 7

VARIABLES
    impl,               \* "api" (api/reading.py) or "svc" (reading_service.py)
    paragraph_exists,   \* the paragraph row is in the paragraphs table
    questions,          \* the question rows persisted for the paragraph
    generating_tasks,   \* the registry entry of the paragraph, or "absent"
    generating_lock,    \* 0 when free, else the client holding it
    request,            \* per request thread: its position in its handler
    response,           \* what the step just taken answered its caller, or "none"
    thread,             \* per background thread slot: position and locals
    spawned,            \* background threads started so far (saturating)
    content,            \* what _read_file returned: the document to segment
    seg_pc,             \* "idle", "split" (content read), "done" (segmented)
    paragraphs,         \* the segmenter's output
    book,               \* the books row of the uploaded book, or NoBook
    rows,               \* the paragraphs rows of the book, in id order
    files,              \* what the upload has left on disk
    upload,             \* position of upload_book
    book_id,            \* the book the running process_book ingests, 0 when none
    _saved_image_map,   \* BookProcessor._saved_image_map: cache key -> URL
    image_files,        \* the files under uploads/book_images
    relocated,          \* the _save_image_bytes calls of the running ingestion
    ingestions,         \* process_book runs started so far
    gen_pc,             \* generate_questions: "idle", "loop" or "returned"
    gen_attempt,        \* generate_questions: the loop variable `attempt`
    prompts,            \* the prompts _call_openai_api was given, in order
    answers,            \* what _call_openai_api came back with, in order
    returned            \* what generate_questions returned

coordVars == <<impl, paragraph_exists, questions, generating_tasks,
               generating_lock, request, response, thread,
               spawned>>

segVars == <<content, seg_pc, paragraphs>>

bookVars == <<book, rows, files, upload>>

imageVars == <<book_id, _saved_image_map, image_files, relocated, ingestions>>

genVars == <<gen_pc, gen_attempt, prompts, answers, returned>>

vars == <<impl, paragraph_exists, questions, generating_tasks,
          generating_lock, request, response, thread, spawned,
          content, seg_pc, paragraphs, book, rows, files, upload,
          book_id, _saved_image_map, image_files, relocated, ingestions,
          gen_pc, gen_attempt, prompts, answers, returned>>

Clients == 1..NumClients
Threads == 1..NumThreads

(* ------------------------------------------------ ai_service: data shapes *)
OptionKeys == {"A", "B", "C", "D"}
RequiredKeys == {"question", "options", "correct_answer"}

\* One item of a backend answer.  keys: the keys the item carries;
\* options_kind: "dict" for a JSON object, "str" for a JSON string;
\* option_keys: the k for which `k in options` is true (the keys of the
\* object, or the letters occurring in the string).
Item(text, kind, okeys, answer) ==
    [keys |-> RequiredKeys, question |-> text, options_kind |-> kind,
     option_keys |-> okeys, correct_answer |-> answer]

GoodItem == Item("ai", "dict", OptionKeys, "B")
NoOptionD == Item("ai", "dict", {"A", "B", "C"}, "B")
BadAnswer == Item("ai", "dict", OptionKeys, "E")
StrOptions == Item("ai", "str", OptionKeys, "B")

DefaultItem == Item("default", "dict", OptionKeys, "A")

DefaultQuestions == [i \in 1..5 |-> DefaultItem]

Good5 == [i \in 1..5 |-> GoodItem]
FourItems == [i \in 1..4 |-> GoodItem]
WithItem(it, k) == [i \in 1..5 |-> IF i = k THEN it ELSE GoodItem]

\* What one call of _call_openai_api can come back with.
BackendOutcomes ==
    { [kind |-> "raise", items |-> <<>>],
      [kind |-> "notlist", items |-> <<>>],
      [kind |-> "list", items |-> Good5],
      [kind |-> "list", items |-> FourItems],
      [kind |-> "list", items |-> WithItem(NoOptionD, 2)],
      [kind |-> "list", items |-> WithItem(BadAnswer, 5)],
      [kind |-> "list", items |-> WithItem(StrOptions, 3)] }

ItemOk(q) ==
    /\ RequiredKeys \subseteq q.keys
    /\ OptionKeys \subseteq q.option_keys
    /\ q.correct_answer \in OptionKeys

_validate_questions_format(o) ==
    /\ o.kind = "list"
    /\ Len(o.items) = 5
    /\ \A i \in 1..Len(o.items) : ItemOk(o.items[i])

\* save_questions builds one row per item, reading q["options"]["A"]: the
\* first item whose options are no mapping raises there (0: none does).
SaveBreaksAt(data) ==
    LET bad == {i \in 1..Len(data) : data[i].options_kind # "dict"}
    IN  IF bad = {} THEN 0 ELSE CHOOSE i \in bad : \A j \in bad : i <= j

Rows(data, n) == [i \in 1..n |-> data[i].question]

\* generate_questions (ai_service.py 152-198): the loop over
\* range(max_retries + 1).  outs[attempt + 1] is what _call_openai_api gives
\* at that attempt; an answer that raises inside the validator is caught by
\* the same except clause as a call that raises.  exhausted: the loop ended
\* without a validated answer and the default questions are returned.
RECURSIVE GenerateFrom(_, _)
GenerateFrom(outs, attempt) ==
    IF _validate_questions_format(outs[attempt + 1])
    THEN [questions |-> outs[attempt + 1].items, exhausted |-> FALSE,
          calls |-> attempt + 1]
    ELSE IF attempt >= max_retries
         THEN [questions |-> DefaultQuestions, exhausted |-> TRUE,
               calls |-> attempt + 1]
         ELSE GenerateFrom(outs, attempt + 1)

\* A variant that hands back the last answer when the attempts are used up.
generate_questions_last(outs) ==
    LET g == GenerateFrom(outs, 0)
    IN  IF g.exhausted
        THEN [g EXCEPT !.questions = outs[max_retries + 1].items]
        ELSE g

generate_questions(outs) == GenerateFrom(outs, 0)

\* The answers the backend can give to the calls of one generate_questions,
\* and what generate_questions returns for them.
BackendBehaviours == [1..(max_retries + 1) -> BackendOutcomes]
GenerateResults == {generate_questions(outs) : outs \in BackendBehaviours}

(* ------------------------------------------------------------ Part I: state *)
NoThread == [pc |-> "unused", data |-> <<>>, exhausted |-> FALSE, pending |-> <<>>]

HasQuestions == Len(questions) > 0
Running(t) == thread[t].pc # "unused"
FreeSlots == {t \in Threads : ~Running(t)}
FirstFree == CHOOSE t \in FreeSlots : \A u \in FreeSlots : t <= u

At(c, pc) == request[c] = pc
Goto(c, pc) == request' = [request EXCEPT ![c] = pc] /\ response' = "none"
Return(c, r) == request' = [request EXCEPT ![c] = "idle"] /\ response' = r
\* a thread moves on; of its locals only `exhausted` is looked at afterwards
Step(t, pc) ==
    /\ thread' = [thread EXCEPT ![t] =
           [NoThread EXCEPT !.pc = pc, !.exhausted = thread[t].exhausted]]
    /\ response' = "none"
Exit(t) ==
    /\ thread' = [thread EXCEPT ![t] = NoThread]
    /\ response' = "none"

\* No document is being segmented, no book is being uploaded.
NoDocument == [kind |-> "none", elements |-> <<>>, lines |-> <<>>]

SegIdle ==
    /\ content = NoDocument
    /\ seg_pc = "idle"
    /\ paragraphs = <<>>

NoBook == [exists |-> FALSE, cover_image |-> FALSE, total_paragraphs |-> 0]

BookIdle ==
    /\ book = NoBook
    /\ rows = <<>>
    /\ files = {}
    /\ upload = "idle"

\* No ingestion has run: BookProcessor.__init__, book_processor.py 16-23
ImageIdle ==
    /\ book_id = 0
    /\ _saved_image_map = [k \in {} |-> 0]
    /\ image_files = {}
    /\ relocated = <<>>
    /\ ingestions = 0

\* No call of generate_questions is followed step by step.
GenIdle ==
    /\ gen_pc = "idle"
    /\ gen_attempt = 0
    /\ prompts = <<>>
    /\ answers = <<>>
    /\ returned = <<>>

CoordInit ==
    /\ impl \in {"api", "svc"}
    /\ paragraph_exists = TRUE
    /\ questions = <<>>
    /\ generating_tasks = "absent"
    /\ generating_lock = 0
    /\ request = [c \in Clients |-> "idle"]
    /\ response = "none"
    /\ thread = [t \in Threads |-> NoThread]
    /\ spawned = 0

(* ------------------------------------- get_questions / get_questions_response *)
\* GET /reading/questions/{paragraph_id} begins: reading.py 176-181
QueryParagraph(c) ==
    /\ impl = "api"
    /\ At(c, "idle")
    /\ IF paragraph_exists THEN Goto(c, "q_db") ELSE Return(c, "error_404")
    /\ UNCHANGED <<segVars, bookVars, imageVars, genVars, impl, paragraph_exists, questions, generating_tasks,
                   generating_lock, thread, spawned>>

\* QueryQuestions made to drop the entry when it finds the questions
QueryQuestions_clearing(c) ==
    /\ IF impl = "api" THEN At(c, "q_db") ELSE At(c, "idle")
    /\ IF HasQuestions
       THEN Return(c, "ready") /\ generating_tasks' = "absent"
       ELSE Goto(c, "q_in") /\ UNCHANGED generating_tasks
    /\ UNCHANGED <<segVars, bookVars, imageVars, genVars, impl, paragraph_exists, questions,
                   generating_lock, thread, spawned>>

\* reading.py 184-208; reading_service.py 82-95, where a call of
\* get_questions_response begins (its caller has looked the paragraph up).
QueryQuestions(c) ==
    /\ IF impl = "api" THEN At(c, "q_db") ELSE At(c, "idle")
    /\ IF HasQuestions THEN Return(c, "ready") ELSE Goto(c, "q_in")
    /\ UNCHANGED <<segVars, bookVars, imageVars, genVars, impl, paragraph_exists, questions, generating_tasks,
                   generating_lock, thread, spawned>>

\* `if paragraph_id in generating_tasks`: reading.py 211, reading_service.py 97
CheckTask(c) ==
    /\ At(c, "q_in")
    /\ IF generating_tasks # "absent" THEN Goto(c, "q_get") ELSE Goto(c, "q_lock")
    /\ UNCHANGED <<segVars, bookVars, imageVars, genVars, impl, paragraph_exists, questions, generating_tasks,
                   generating_lock, thread, spawned>>

\* ReadTask made to wait while the entry says "generating"
ReadTask_waiting(c) ==
    /\ At(c, "q_get")
    /\ generating_tasks # "generating"
    /\ CASE generating_tasks = "absent" -> Return(c, "error_key")
         [] generating_tasks = "completed" -> Goto(c, "q_recheck")
         [] generating_tasks = "failed" -> Goto(c, "q_del_failed")
    /\ UNCHANGED <<segVars, bookVars, imageVars, genVars, impl, paragraph_exists, questions, generating_tasks,
                   generating_lock, thread, spawned>>

\* A variant that answers a failed entry with an error.
ReadTask_surfacing(c) ==
    /\ At(c, "q_get")
    /\ CASE generating_tasks = "absent" -> Return(c, "error_key")
         [] generating_tasks = "generating" -> Return(c, "generating")
         [] generating_tasks = "completed" -> Goto(c, "q_recheck")
         [] generating_tasks = "failed" -> Return(c, "error_failed")
    /\ UNCHANGED <<segVars, bookVars, imageVars, genVars, impl, paragraph_exists, questions, generating_tasks,
                   generating_lock, thread, spawned>>

\* `task_info = generating_tasks[paragraph_id]` and the branch on its status:
\* reading.py 212-221/258, reading_service.py 98-108/128.  The entry may have
\* been removed since the membership test: the subscript then raises KeyError.
ReadTask(c) ==
    /\ At(c, "q_get")
    /\ CASE generating_tasks = "absent" -> Return(c, "error_key")
         [] generating_tasks = "generating" -> Return(c, "generating")
         [] generating_tasks = "completed" -> Goto(c, "q_recheck")
         [] generating_tasks = "failed" -> Goto(c, "q_del_failed")
    /\ UNCHANGED <<segVars, bookVars, imageVars, genVars, impl, paragraph_exists, questions, generating_tasks,
                   generating_lock, thread, spawned>>

\* The entry said "completed": look at the store again.  reading.py 224
\* refreshes the paragraph first, which raises when its row is gone.
Recheck(c) ==
    /\ At(c, "q_recheck")
    /\ IF impl = "api" /\ ~paragraph_exists
       THEN Return(c, "error_refresh")
       ELSE IF HasQuestions THEN Return(c, "ready")
            ELSE Goto(c, "q_del_completed")
    /\ UNCHANGED <<segVars, bookVars, imageVars, genVars, impl, paragraph_exists, questions, generating_tasks,
                   generating_lock, thread, spawned>>

\* `del generating_tasks[paragraph_id]`: reading.py 251, reading_service.py 121
DeleteCompleted(c) ==
    /\ At(c, "q_del_completed")
    /\ IF generating_tasks = "absent"
       THEN Return(c, "error_key") /\ UNCHANGED generating_tasks
       ELSE generating_tasks' = "absent" /\ Return(c, "generating")
    /\ UNCHANGED <<segVars, bookVars, imageVars, genVars, impl, paragraph_exists, questions, generating_lock, thread,
                   spawned>>

\* `del generating_tasks[paragraph_id]`: reading.py 261, reading_service.py 130
DeleteFailed(c) ==
    /\ At(c, "q_del_failed")
    /\ IF generating_tasks = "absent"
       THEN Return(c, "error_key") /\ UNCHANGED generating_tasks
       ELSE generating_tasks' = "absent" /\ Goto(c, "q_lock")
    /\ UNCHANGED <<segVars, bookVars, imageVars, genVars, impl, paragraph_exists, questions, generating_lock, thread,
                   spawned>>

\* AcquireLock without the membership test under the lock
AcquireLock_unchecked(c) ==
    /\ At(c, "q_lock")
    /\ generating_lock = 0
    /\ generating_lock' = c
    /\ Goto(c, "q_spawn")
    /\ UNCHANGED <<segVars, bookVars, imageVars, genVars, impl, paragraph_exists, questions, generating_tasks, thread,
                   spawned>>

\* `with generating_lock: if paragraph_id not in generating_tasks`:
\* reading.py 263-264 and 279-281, start_question_generation 64-66
AcquireLock(c) ==
    /\ At(c, "q_lock")
    /\ generating_lock = 0
    /\ IF generating_tasks # "absent"
       THEN Return(c, "generating") /\ UNCHANGED generating_lock
       ELSE generating_lock' = c /\ Goto(c, "q_spawn")
    /\ UNCHANGED <<segVars, bookVars, imageVars, genVars, impl, paragraph_exists, questions, generating_tasks, thread,
                   spawned>>

\* The rest of the locked block: mark the entry, start the thread, release.
\* reading.py 141-147, 265-271, 283-288, start_question_generation 69-75
StartThread(c) ==
    /\ request[c] \in {"q_spawn", "n_spawn"}
    /\ generating_lock = c
    /\ FreeSlots # {}
    /\ generating_tasks' = "generating"
    /\ thread' = [thread EXCEPT ![FirstFree] =
           [NoThread EXCEPT !.pc = "w_check"]]
    /\ spawned' = IF spawned < MaxSpawned THEN spawned + 1 ELSE spawned
    /\ generating_lock' = 0
    /\ Return(c, IF At(c, "q_spawn") THEN "generating" ELSE "paragraph")
    /\ UNCHANGED <<segVars, bookVars, imageVars, genVars, impl, paragraph_exists, questions>>

(* ------------------------------------------------- get_next_paragraph *)
\* GET /reading/next-paragraph/{book_id} begins: reading.py 102-135, the
\* paragraph lookup and the count of its questions.  Which paragraph is next
\* depends on the calling user's progress; for some user it is this one.
\* With questions present the locked block that follows does nothing, and
\* the handler answers.
NextParagraphQuery(c) ==
    /\ impl = "api"
    /\ At(c, "idle")
    /\ IF ~paragraph_exists THEN Return(c, "no_paragraph")
       ELSE IF HasQuestions THEN Return(c, "paragraph")
            ELSE Goto(c, "n_lock")
    /\ UNCHANGED <<segVars, bookVars, imageVars, genVars, impl, paragraph_exists, questions, generating_tasks,
                   generating_lock, thread, spawned>>

\* reading.py 138-139
NextParagraphLock(c) ==
    /\ At(c, "n_lock")
    /\ generating_lock = 0
    /\ IF generating_tasks = "absent"
       THEN generating_lock' = c /\ Goto(c, "n_spawn")
       ELSE Return(c, "paragraph") /\ UNCHANGED generating_lock
    /\ UNCHANGED <<segVars, bookVars, imageVars, genVars, impl, paragraph_exists, questions, generating_tasks, thread,
                   spawned>>

(* ---------------------------------------------------------- submit_test *)
\* POST /reading/submit-test begins: reading.py 305-396, the paragraph
\* lookup, the result rows, the progress row
SubmitParagraph(c) ==
    /\ impl = "api"
    /\ At(c, "idle")
    /\ IF paragraph_exists THEN Goto(c, "s_in") ELSE Return(c, "submit_404")
    /\ UNCHANGED <<segVars, bookVars, imageVars, genVars, impl, paragraph_exists, questions, generating_tasks,
                   generating_lock, thread, spawned>>

\* reading.py 399
SubmitCheck(c) ==
    /\ At(c, "s_in")
    /\ IF generating_tasks # "absent" THEN Goto(c, "s_del")
       ELSE Return(c, "submitted")
    /\ UNCHANGED <<segVars, bookVars, imageVars, genVars, impl, paragraph_exists, questions, generating_tasks,
                   generating_lock, thread, spawned>>

\* reading.py 400
SubmitDelete(c) ==
    /\ At(c, "s_del")
    /\ IF generating_tasks = "absent"
       THEN Return(c, "submit_key") /\ UNCHANGED generating_tasks
       ELSE generating_tasks' = "absent" /\ Return(c, "submitted")
    /\ UNCHANGED <<segVars, bookVars, imageVars, genVars, impl, paragraph_exists, questions, generating_lock, thread,
                   spawned>>

(* ------------------------------------------------ other registry and store operations *)
\* reading_service.py 214-216: one dict.pop
clear_question_task ==
    /\ impl = "svc"
    /\ generating_tasks # "absent"
    /\ generating_tasks' = "absent"
    /\ response' = "none"
    /\ UNCHANGED <<segVars, bookVars, imageVars, genVars, impl, paragraph_exists, questions, generating_lock, request,
                   thread, spawned>>

\* books.py 269-300: one transaction removes the paragraph and its questions.
\* The registry is not touched.
DeleteParagraphRow ==
    /\ paragraph_exists
    /\ paragraph_exists' = FALSE
    /\ questions' = <<>>
    /\ response' = "none"
    /\ UNCHANGED <<segVars, bookVars, imageVars, genVars, impl, generating_tasks, generating_lock, request, thread, spawned>>

(* ------------------------------------------------------ the background thread *)
\* reading_service.py 150-155, reading.py 32-37: the count query.  A query
\* that raises lands in the except block.
CountExisting(t) ==
    /\ thread[t].pc = "w_check"
    /\ \/ Step(t, IF HasQuestions THEN "w_completed" ELSE "w_mark")
       \/ Step(t, "w_except")
    /\ UNCHANGED <<segVars, bookVars, imageVars, genVars, impl, paragraph_exists, questions, generating_tasks,
                   generating_lock, request, spawned>>

\* reading_service.py 167-171, reading.py 43-47: the entry is written, then
\* generate_questions runs.  It touches nothing shared, so it is taken in
\* the same step; g is what it returns for some behaviour of the backend.
MarkGenerating(t, g) ==
    /\ thread[t].pc = "w_mark"
    /\ generating_tasks' = "generating"
    /\ thread' = [thread EXCEPT ![t].pc = "w_save", ![t].data = g.questions,
                                ![t].exhausted = g.exhausted]
    /\ response' = "none"
    /\ UNCHANGED <<segVars, bookVars, imageVars, genVars, impl, paragraph_exists, questions, generating_lock, request,
                   spawned>>

\* ai_service.py 210-227 as called at reading_service.py 172, reading.py 48:
\* rows are added to the session one by one, then committed together.  A row
\* that cannot be built raises with the earlier rows pending in the session;
\* a commit that raises persists nothing.
SaveQuestions(t) ==
    /\ thread[t].pc = "w_save"
    /\ LET data == thread[t].data
           k == SaveBreaksAt(data)
       IN  IF k > 0
           THEN /\ thread' = [thread EXCEPT ![t] =
                       [NoThread EXCEPT !.pc = "w_except",
                                        !.exhausted = thread[t].exhausted,
                                        !.pending = Rows(data, k - 1)]]
                /\ response' = "none"
                /\ UNCHANGED questions
           ELSE \/ /\ Len(questions) + Len(data) <= MaxRows
                   /\ questions' = questions \o Rows(data, Len(data))
                   /\ Step(t, "w_completed")
                \/ /\ Step(t, "w_except")
                   /\ UNCHANGED questions
    /\ UNCHANGED <<segVars, bookVars, imageVars, genVars, impl, paragraph_exists, generating_tasks, generating_lock,
                   request, spawned>>

\* reading_service.py 184-189, reading.py 58-63: the except block counts the
\* questions again.  The session factory (app/db/database.py) decides whether
\* the query first flushes the pending rows, so that they are counted; both
\* settings are allowed here.  A query that raises ends in "failed".
CountAgain(t) ==
    /\ thread[t].pc = "w_except"
    /\ \/ Step(t, "w_failed")
       \/ \E autoflush \in BOOLEAN :
             LET n == Len(questions)
                        + (IF autoflush THEN Len(thread[t].pending) ELSE 0)
             IN  IF n = 0
                 THEN /\ thread' = [thread EXCEPT ![t].pc = "w_save_default"]
                      /\ response' = "none"
                 ELSE Step(t, "w_completed")
    /\ UNCHANGED <<segVars, bookVars, imageVars, genVars, impl, paragraph_exists, questions, generating_tasks,
                   generating_lock, request, spawned>>

\* reading_service.py 190-191, reading.py 65-66: the commit also writes what
\* was pending in the session.
SaveDefault(t) ==
    /\ thread[t].pc = "w_save_default"
    /\ \/ /\ Len(questions) + Len(thread[t].pending) + 5 <= MaxRows
          /\ questions' = questions \o thread[t].pending
                                    \o Rows(DefaultQuestions, 5)
          /\ Step(t, "w_completed")
       \/ /\ Step(t, "w_failed")
          /\ UNCHANGED questions
    /\ UNCHANGED <<segVars, bookVars, imageVars, genVars, impl, paragraph_exists, generating_tasks, generating_lock,
                   request, spawned>>

\* reading_service.py 161/174/193, reading.py 39/51/68, then db.close()
MarkCompleted(t) ==
    /\ thread[t].pc = "w_completed"
    /\ generating_tasks' = "completed"
    /\ Exit(t)
    /\ UNCHANGED <<segVars, bookVars, imageVars, genVars, impl, paragraph_exists, questions, generating_lock, request,
                   spawned>>

\* reading_service.py 203, reading.py 74, then db.close()
MarkFailed(t) ==
    /\ thread[t].pc = "w_failed"
    /\ generating_tasks' = "failed"
    /\ Exit(t)
    /\ UNCHANGED <<segVars, bookVars, imageVars, genVars, impl, paragraph_exists, questions, generating_lock, request,
                   spawned>>

(* ------------------------------------------------ a launch that fails *)
\* The locked block when thread.start() raises (no thread can be started):
\* the entry has been written (start_question_generation 69, reading.py
\* 265, 283), the with block releases the lock, the exception leaves the
\* handler, and no thread runs.
StartFails(c) ==
    /\ request[c] \in {"q_spawn", "n_spawn"}
    /\ generating_lock = c
    /\ generating_tasks' = "generating"
    /\ generating_lock' = 0
    /\ Return(c, "error_start")
    /\ UNCHANGED <<segVars, bookVars, imageVars, genVars, impl, paragraph_exists, questions, thread, spawned>>

\* The thread's first statement, SessionLocal(), raises.  In reading.py 24-28
\* it stands inside the outer try, whose except block writes "failed"
\* (79); in reading_service.py 148 it stands before the try, and the thread
\* ends there.
SessionFails(t) ==
    /\ thread[t].pc = "w_check"
    /\ IF impl = "api" THEN Step(t, "w_failed") ELSE Exit(t)
    /\ UNCHANGED <<segVars, bookVars, imageVars, genVars, impl, paragraph_exists, questions, generating_tasks,
                   generating_lock, request, spawned>>

(* ------------------------------------------------------ specifications *)
StatusCheck(c) ==
    \/ QueryParagraph(c)
    \/ QueryQuestions(c)
    \/ CheckTask(c)
    \/ ReadTask(c)
    \/ Recheck(c)
    \/ DeleteCompleted(c)
    \/ DeleteFailed(c)
    \/ AcquireLock(c)
    \/ StartThread(c)

Background(t) ==
    \/ CountExisting(t)
    \/ \E g \in GenerateResults : MarkGenerating(t, g)
    \/ SaveQuestions(t)
    \/ CountAgain(t)
    \/ SaveDefault(t)
    \/ MarkCompleted(t)
    \/ MarkFailed(t)

Next ==
    \/ \E c \in Clients : StatusCheck(c)
    \/ \E c \in Clients : NextParagraphQuery(c)
    \/ \E c \in Clients : NextParagraphLock(c)
    \/ \E c \in Clients : SubmitParagraph(c)
    \/ \E c \in Clients : SubmitCheck(c)
    \/ \E c \in Clients : SubmitDelete(c)
    \/ clear_question_task
    \/ DeleteParagraphRow
    \/ \E t \in Threads : Background(t)

Init == CoordInit /\ SegIdle /\ BookIdle /\ ImageIdle /\ GenIdle

Spec == Init /\ [][Next]_vars

\* Status checks only: the request threads call get_questions /
\* get_questions_response again and again, and the background threads run.
ChecksNext ==
    \/ \E c \in Clients : StatusCheck(c)
    \/ \E t \in Threads : Background(t)

SpecChecks == Init /\ [][ChecksNext]_vars

\* One caller polls the status.  Every call it makes goes on to its answer
\* and every background thread goes on to its end: each query, backend call
\* and commit returns, with a result or with an error.
Caller == CHOOSE c \in Clients : \A d \in Clients : c <= d

PollNext ==
    \/ StatusCheck(Caller)
    \/ \E t \in Threads : Background(t)

FairPoll ==
    /\ Init
    /\ [][PollNext]_vars
    /\ WF_vars(StatusCheck(Caller))
    /\ \A t \in Threads : WF_vars(Background(t))

\* One caller polls the status and every call it makes goes on to its
\* answer; nothing is said of the background threads, which may stop at any
\* point (a backend call that never returns) or never be scheduled.
FairChecks ==
    /\ Init
    /\ [][PollNext]_vars
    /\ WF_vars(StatusCheck(Caller))

\* One caller polls the status, and a launch may fail: thread.start() or
\* the thread's SessionLocal() raises.
LaunchNext ==
    \/ PollNext
    \/ StartFails(Caller)
    \/ \E t \in Threads : SessionFails(t)

SpecLaunch == Init /\ [][LaunchNext]_vars

(* ---------------------------------------------------- Part I: properties *)
RunningUnits == {t \in Threads : Running(t)}

\* C1 (as stated): in every reachable state at most one background
\* generation unit is running for the paragraph, whatever the interleaving
\* of status checks, next-paragraph requests, thread completions and
\* failures, and submit_test's removal of the registry entry.
AtMostOneUnit == Cardinality(RunningUnits) <= 1

\* C2 (as stated, its safety part): with status checks as the only callers,
\* starting from no questions and no registry entry, never more than one
\* generation unit is at work and never more than one set of five questions
\* is persisted.
OneUnitOneSet ==
    /\ Cardinality(RunningUnits) <= 1
    /\ Len(questions) <= 5

\* C3 (as stated): in every reachable state the paragraph has zero or exactly
\* five persisted questions.
ZeroOrFive == Len(questions) \in {0, 5}

\* Every error a status check can end with.
StatusErrors == {"error_404", "error_key", "error_refresh", "error_failed"}

CheckNeverWaits ==
    /\ (request[Caller] # "idle")
           ~> (request[Caller] = "idle" /\ response \in {"generating", "ready"})
    /\ [](generating_lock # 0 => request[generating_lock] = "q_spawn")

\* C12 witness: the check answered "generating" while the thread it waits
\* for nowhere is in the middle of its work.
AnsweredWhileRunning ==
    /\ request[Caller] = "idle"
    /\ response = "generating"
    /\ \E t \in Threads : thread[t].pc = "w_save"

\* C14: the step of a status check that finds the questions persisted
\* answers "ready" and ends the check, and changes neither the registry
\* entry nor the lock nor the background threads nor their count.
ReadyLeavesRegistry ==
    [][\A c \in Clients :
          (QueryQuestions(c) /\ HasQuestions) =>
              /\ response' = "ready"
              /\ request'[c] = "idle"
              /\ generating_tasks' = generating_tasks
              /\ generating_lock' = generating_lock
              /\ thread' = thread
              /\ spawned' = spawned]_vars

\* C14 witness: "ready" was answered while the entry said "generating".
ReadyBesideEntry ==
    /\ response = "ready"
    /\ request[Caller] = "idle"
    /\ HasQuestions
    /\ generating_tasks = "generating"
    /\ \E t \in Threads : thread[t].pc = "w_completed"

\* C15: a status check that reads the entry as "generating", outside the
\* lock or in the test under the lock, answers "generating" and ends,
\* leaving the entry, the lock, the threads and their count as they are.
GeneratingIsLeftAlone ==
    [][\A c \in Clients :
          ((ReadTask(c) \/ AcquireLock(c)) /\ generating_tasks = "generating") =>
              /\ response' = "generating"
              /\ request'[c] = "idle"
              /\ generating_tasks' = "generating"
              /\ generating_lock' = generating_lock
              /\ thread' = thread
              /\ spawned' = spawned]_vars

\* C15 witness: two reads of a paragraph without questions were under way
\* together, one thread was started, both reads are answered and the thread
\* has not taken a step.
SecondReadAnswered ==
    /\ \A c \in Clients : request[c] = "idle"
    /\ response = "generating"
    /\ spawned = 1
    /\ generating_tasks = "generating"
    /\ \E t \in Threads :
           /\ thread[t].pc = "w_check"
           /\ \A u \in Threads \ {t} : thread[u] = NoThread

\* C16 (as stated): however many status checks observed the same "failed"
\* entry, the `del` of each finds that entry still "failed" or, once one of
\* them has requeued it, leaves the fresh "generating" entry alone; none of
\* them ends with an error, and none starts a unit beside a running one.
FailedRequeuedOnce ==
    [][\A c \in Clients :
          /\ DeleteFailed(c) =>
                 /\ generating_tasks = "failed"
                 /\ response' # "error_key"
          /\ (StartThread(c) /\ At(c, "q_spawn")) => RunningUnits = {}]_vars

\* C17 (as stated): a status check that read the entry as "completed" and
\* found no questions on its fresh query removes the entry and answers
\* "generating", and starts no thread in that call.
CompletedEmptyCleared ==
    [][\A c \in Clients :
          DeleteCompleted(c) =>
              /\ generating_tasks # "absent"
              /\ generating_tasks' = "absent"
              /\ response' = "generating"
              /\ thread' = thread]_vars

NoEntryAfterSubmit ==
    [][/\ \A c \in Clients :
             (SubmitCheck(c) \/ SubmitDelete(c)) /\ response' = "submitted"
                 => generating_tasks' = "absent"
       /\ clear_question_task => generating_tasks' = "absent"
       /\ (generating_tasks = "absent" /\ generating_tasks' # "absent")
             => \E c \in Clients : StartThread(c)]_vars

\* C20 (as stated): no operation acts on an entry that another operation
\* has changed since it was read: the `del` of the completed branch finds
\* the entry "completed", the `del` of the failed branch finds it "failed",
\* and a background thread writes its status over the "generating" entry it
\* was started under.
RegistrySerialized ==
    [][/\ \A c \in Clients :
             /\ DeleteCompleted(c) => generating_tasks = "completed"
             /\ DeleteFailed(c) => generating_tasks = "failed"
       /\ \A t \in Threads :
             (\/ MarkCompleted(t)
              \/ MarkFailed(t)
              \/ thread[t].pc = "w_mark" /\ thread'[t].pc = "w_save")
                 => generating_tasks = "generating"]_vars

\* C21 (as stated): the entry moves only along absent -> generating ->
\* {completed, failed}: an absent entry appears as "generating", and a
\* "completed" or "failed" entry changes only by being removed.
EntryLifecycle ==
    [][/\ generating_tasks = "absent"
             => generating_tasks' \in {"absent", "generating"}
       /\ generating_tasks \in {"completed", "failed"}
             => generating_tasks' \in {generating_tasks, "absent"}]_vars

\* C29: no status check ends with the missing-key error, whatever removes
\* or replaces the entry while the check is under way.
NoMissingKeyError == response # "error_key"

\* C27: an entry that says "generating" has a running unit behind it.
GeneratingHasUnit == generating_tasks = "generating" => RunningUnits # {}

(* ------------------------------------------------- Part II: the segmenter *)
\* A document is what _read_file returns.  Its text is kept as the lengths
\* of its lines: the stripped, non-empty pieces that `text.split("\n")`
\* yields.  kind "html": markup whose block elements (the elements find_all
\* keeps) are `elements`; "inline": markup without any such element;
\* "text": no markup at all.  An element carries its lines and sep, the
\* number of characters get_text() has between two of its lines: 1 when a
\* newline in the text separates them, 0 when a tag such as <br/> does.
LineLengths == {900, 3100, 5000}

SeqsUpTo(S, n) == UNION {[1..k -> S] : k \in 0..n}

Elements ==
    {[lines |-> l, sep |-> 1] : l \in SeqsUpTo(LineLengths, MaxLines)}
    \cup {[lines |-> l, sep |-> 0] :
             l \in {x \in SeqsUpTo(LineLengths, MaxLines) : Len(x) >= 2}}

HtmlDocuments ==
    {[kind |-> "html", elements |-> es, lines |-> <<>>] :
        es \in SeqsUpTo(Elements, MaxElems) \ {<<>>}}

InlineDocuments ==
    {[kind |-> "inline", elements |-> <<>>, lines |-> l] :
        l \in SeqsUpTo(LineLengths, MaxTextLines)}

TextDocuments ==
    {[kind |-> "text", elements |-> <<>>, lines |-> l] :
        l \in SeqsUpTo(LineLengths, MaxTextLines)}

Documents == HtmlDocuments \cup InlineDocuments \cup TextDocuments

RECURSIVE Sum(_)
Sum(seq) == IF seq = <<>> THEN 0 ELSE Head(seq) + Sum(Tail(seq))

RECURSIVE Flatten(_)
Flatten(seqs) == IF seqs = <<>> THEN <<>> ELSE Head(seqs) \o Flatten(Tail(seqs))

\* len("\n".join(lines))
JoinedLength(lines) ==
    IF lines = <<>> THEN 0 ELSE Sum(lines) + Len(lines) - 1

\* len(elem_soup.get_text()), book_processor.py 440-441
TextLength(e) ==
    IF e.lines = <<>> THEN 0 ELSE Sum(e.lines) + e.sep * (Len(e.lines) - 1)

\* A paragraph of the output: its lines and what wraps them ("p": <p>..</p>
\* written by _split_oversized_paragraphs; "source": the markup of the
\* document itself; "none": plain text).
Paragraph(lines, wrapper) == [lines |-> lines, wrapper |-> wrapper]

\* len(_strip_html_tags(content)), book_processor.py 58-68
StrippedLength(p) == JoinedLength(p.lines)

\* len(content)
RawLength(p) ==
    StrippedLength(p) + (IF p.wrapper = "none" THEN 0 ELSE WrapLength)

\* _split_html_paragraphs 435-459: the loop over the elements.  current is
\* the chunk being built (a sequence of elements), text_length its
\* current_text_length.
RECURSIVE MergeFrom(_, _, _, _, _)
MergeFrom(elements, i, result, current, text_length) ==
    IF i > Len(elements)
    THEN IF current # <<>> THEN Append(result, current) ELSE result
    ELSE LET e == elements[i]
         IN  IF current = <<>>
             THEN MergeFrom(elements, i + 1, result, <<e>>, TextLength(e))
             ELSE IF text_length < LowWaterMark
                  THEN MergeFrom(elements, i + 1, result, Append(current, e),
                                 text_length + TextLength(e))
                  ELSE MergeFrom(elements, i + 1, Append(result, current),
                                 <<e>>, TextLength(e))

\* The loop with `<=` in place of the `<` of line 448
RECURSIVE MergeFrom_inclusive(_, _, _, _, _)
MergeFrom_inclusive(elements, i, result, current, text_length) ==
    IF i > Len(elements)
    THEN IF current # <<>> THEN Append(result, current) ELSE result
    ELSE LET e == elements[i]
         IN  IF current = <<>>
             THEN MergeFrom_inclusive(elements, i + 1, result, <<e>>,
                                      TextLength(e))
             ELSE IF text_length <= LowWaterMark
                  THEN MergeFrom_inclusive(elements, i + 1, result,
                                           Append(current, e),
                                           text_length + TextLength(e))
                  ELSE MergeFrom_inclusive(elements, i + 1,
                                           Append(result, current),
                                           <<e>>, TextLength(e))

MergeElements_inclusive(elements) ==
    MergeFrom_inclusive(elements, 1, <<>>, <<>>, 0)

MergeElements(elements) == MergeFrom(elements, 1, <<>>, <<>>, 0)

\* text_blocks of a chunk: get_text("\n") puts every line on its own
ChunkLines(chunk) == Flatten([i \in 1..Len(chunk) |-> chunk[i].lines])

\* _split_oversized_paragraphs 483-497: the loop over text_blocks
RECURSIVE PackFrom(_, _, _, _)
PackFrom(text_blocks, i, normalized, current) ==
    IF i > Len(text_blocks)
    THEN IF current # <<>>
         THEN Append(normalized, Paragraph(current, "p"))
         ELSE normalized
    ELSE LET block == text_blocks[i]
         IN  IF current = <<>>
             THEN PackFrom(text_blocks, i + 1, normalized, <<block>>)
             ELSE IF JoinedLength(current) + block + 1 <= max_text_length
                  THEN PackFrom(text_blocks, i + 1, normalized,
                                Append(current, block))
                  ELSE PackFrom(text_blocks, i + 1,
                                Append(normalized, Paragraph(current, "p")),
                                <<block>>)

\* _split_oversized_paragraphs 466-499; line_seqs are the text_blocks of the
\* paragraphs handed in.  A paragraph without text adds nothing; when no
\* paragraph has text the paragraphs come back as they are.
_split_oversized_paragraphs(line_seqs) ==
    LET normalized ==
            Flatten([k \in 1..Len(line_seqs) |->
                        PackFrom(line_seqs[k], 1, <<>>, <<>>)])
    IN  IF normalized # <<>> THEN normalized
        ELSE [k \in 1..Len(line_seqs) |-> Paragraph(line_seqs[k], "source")]

\* _split_html_paragraphs 398-464
_split_html_paragraphs(doc) ==
    IF doc.elements = <<>>
    THEN _split_oversized_paragraphs(<<doc.lines>>)
    ELSE LET result == MergeElements(doc.elements)
         IN  _split_oversized_paragraphs(
                 [k \in 1..Len(result) |-> ChunkLines(result[k])])

\* _split_text_paragraphs 513-538
RECURSIVE TextFrom(_, _, _, _)
TextFrom(raw_paragraphs, i, result, current) ==
    IF i > Len(raw_paragraphs)
    THEN IF current # <<>>
         THEN Append(result, Paragraph(current, "none"))
         ELSE result
    ELSE LET raw_para == raw_paragraphs[i]
         IN  IF current = <<>>
             THEN TextFrom(raw_paragraphs, i + 1, result, <<raw_para>>)
             ELSE IF JoinedLength(current) < LowWaterMark
                  THEN TextFrom(raw_paragraphs, i + 1, result,
                                Append(current, raw_para))
                  ELSE TextFrom(raw_paragraphs, i + 1,
                                Append(result, Paragraph(current, "none")),
                                <<raw_para>>)

\* _split_text_paragraphs without the `if current_paragraph` of line 535
_split_text_paragraphs_unguarded(doc) ==
    IF doc.lines = <<>>
    THEN <<Paragraph(<<>>, "none")>>
    ELSE TextFrom(doc.lines, 1, <<>>, <<>>)

_split_text_paragraphs(doc) == TextFrom(doc.lines, 1, <<>>, <<>>)

\* _split_into_paragraphs 386-396
_split_into_paragraphs(doc) ==
    IF doc.kind \in {"html", "inline"}
    THEN _split_html_paragraphs(doc)
    ELSE _split_text_paragraphs(doc)

\* process_book 35: the segmenter runs on the content that was read; the
\* three actions are the three ways through it.
SplitHtml ==
    /\ seg_pc = "split"
    /\ content.kind = "html"
    /\ paragraphs' = _split_into_paragraphs(content)
    /\ seg_pc' = "done"
    /\ UNCHANGED <<coordVars, imageVars, genVars, bookVars, content>>

SplitWithoutElements ==
    /\ seg_pc = "split"
    /\ content.kind = "inline"
    /\ paragraphs' = _split_into_paragraphs(content)
    /\ seg_pc' = "done"
    /\ UNCHANGED <<coordVars, imageVars, genVars, bookVars, content>>

SplitText ==
    /\ seg_pc = "split"
    /\ content.kind = "text"
    /\ paragraphs' = _split_into_paragraphs(content)
    /\ seg_pc' = "done"
    /\ UNCHANGED <<coordVars, imageVars, genVars, bookVars, content>>

\* The coordinator at rest, for the behaviours of Parts II and III.
CoordIdle == CoordInit /\ impl = "api"

SegInit ==
    /\ CoordIdle
    /\ BookIdle
    /\ ImageIdle
    /\ GenIdle
    /\ content \in Documents
    /\ seg_pc = "split"
    /\ paragraphs = <<>>

SegNext == SplitHtml \/ SplitWithoutElements \/ SplitText

SpecSeg == SegInit /\ [][SegNext]_vars

\* Documents of up to MaxBlocks block elements of one short line each.
BlockLengths == {40, 400, 1000}

BlockDocuments ==
    {[kind |-> "html",
      elements |-> [k \in 1..Len(ls) |-> [lines |-> <<ls[k]>>, sep |-> 1]],
      lines |-> <<>>] :
        ls \in SeqsUpTo(BlockLengths, MaxBlocks) \ {<<>>}}

BlocksInit ==
    /\ CoordIdle
    /\ BookIdle
    /\ ImageIdle
    /\ GenIdle
    /\ content \in BlockDocuments
    /\ seg_pc = "split"
    /\ paragraphs = <<>>

SpecBlocks == BlocksInit /\ [][SplitHtml]_vars

\* Markup trees.  A tree is the sequence of its nodes in document order;
\* a node names its tag, its parent (0: the document itself) and, for a
\* text node, the base of its length.  The text node at position i is
\* base + i characters long, so that every piece of text of a tree is told
\* apart by its length.
Tags == {"div", "p", "blockquote", "ul", "li", "#text"}

\* the tags of find_all's list (line 407-422) that occur among Tags
BlockTags == {"p", "div", "li", "blockquote"}

TextBases == {40, 1000}

RECURSIVE IsAncestor(_, _, _)
IsAncestor(nodes, a, i) ==
    LET parent == nodes[i].parent
    IN  parent # 0 /\ (parent = a \/ IsAncestor(nodes, a, parent))

\* The nodes that may follow the nodes of t in document order: a child of
\* the last node or of one of its ancestors, or a child of the document; a
\* li under a ul and nothing else there, only text inside a p.
NextNodes(t) ==
    {r \in [tag : Tags, parent : 0..Len(t), base : {0} \cup TextBases] :
        /\ (r.tag = "#text") <=> (r.base # 0)
        /\ r.parent # 0 =>
               /\ t[r.parent].tag # "#text"
               /\ r.parent = Len(t) \/ IsAncestor(t, r.parent, Len(t))
               /\ t[r.parent].tag = "p" => r.tag = "#text"
        /\ (r.tag = "li") <=> (r.parent # 0 /\ t[r.parent].tag = "ul")}

RECURSIVE TreesOf(_)
TreesOf(n) ==
    IF n = 0 THEN {<<>>}
    ELSE UNION {{Append(t, r) : r \in NextNodes(t)} : t \in TreesOf(n - 1)}

\* the documents of 1..max nodes
TreeDocuments(max) ==
    {[kind |-> "tree", elements |-> <<>>, lines |-> <<>>, nodes |-> t] :
        t \in UNION {TreesOf(n) : n \in 1..max}}

\* The text of the nodes from position j on that lie below node a (a = 0:
\* the whole document), in document order.
RECURSIVE TextBelow(_, _, _)
TextBelow(nodes, a, j) ==
    IF j > Len(nodes) THEN <<>>
    ELSE (IF nodes[j].tag = "#text" /\ (a = 0 \/ IsAncestor(nodes, a, j))
          THEN <<nodes[j].base + j>>
          ELSE <<>>) \o TextBelow(nodes, a, j + 1)

\* line 407-428: the elements find_all returns, kept unless the parent is
\* a p or a div; str(elem) carries the whole subtree
RECURSIVE find_all(_, _)
find_all(nodes, i) ==
    IF i > Len(nodes) THEN <<>>
    ELSE (IF /\ nodes[i].tag \in BlockTags
             /\ \/ nodes[i].parent = 0
                \/ nodes[nodes[i].parent].tag \notin {"p", "div"}
          THEN <<[lines |-> TextBelow(nodes, i, i + 1), sep |-> 0]>>
          ELSE <<>>) \o find_all(nodes, i + 1)

\* the document as _split_html_paragraphs sees it: the collected elements
\* and, for the case that there are none, the text of the whole content
Soup(doc) ==
    [kind |-> "html",
     elements |-> find_all(doc.nodes, 1),
     lines |-> TextBelow(doc.nodes, 0, 1)]

SplitTree ==
    /\ seg_pc = "split"
    /\ content.kind = "tree"
    /\ paragraphs' = _split_html_paragraphs(Soup(content))
    /\ seg_pc' = "done"
    /\ UNCHANGED <<coordVars, imageVars, genVars, bookVars, content>>

TreeInit ==
    /\ CoordIdle
    /\ BookIdle
    /\ ImageIdle
    /\ GenIdle
    /\ content \in TreeDocuments(MaxNodes)
    /\ seg_pc = "split"
    /\ paragraphs = <<>>

SpecTree == TreeInit /\ [][SplitTree]_vars

(* --------------------------------------------------- Part II: properties *)
\* C8 (as stated): every paragraph the segmenter produces has a
\* stripped-text length of at most 4000.
AllWithinHighWater ==
    seg_pc = "done" =>
        \A i \in 1..Len(paragraphs) :
            StrippedLength(paragraphs[i]) <= max_text_length

\* C9 (as stated): every paragraph of the segmenter's output except the last
\* has a stripped-text length of at least 1000.
OnlyLastBelowLowWater ==
    seg_pc = "done" =>
        \A i \in 1..(Len(paragraphs) - 1) :
            StrippedLength(paragraphs[i]) >= LowWaterMark

\* C24: the blocks come out in document order; every paragraph was below
\* the low-water mark before its last block was appended, every paragraph
\* but the last has reached it, and blocks that together stay below it make
\* exactly one paragraph.
LowWaterAccumulation ==
    seg_pc = "done" =>
        LET blocks == ChunkLines(content.elements)
        IN  /\ Flatten([k \in 1..Len(paragraphs) |-> paragraphs[k].lines])
                   = blocks
            /\ \A k \in 1..Len(paragraphs) :
                   LET l == paragraphs[k].lines
                   IN  /\ l # <<>>
                       /\ Sum(SubSeq(l, 1, Len(l) - 1)) < LowWaterMark
                       /\ k < Len(paragraphs) => Sum(l) >= LowWaterMark
            /\ Sum(blocks) < LowWaterMark => Len(paragraphs) = 1

\* C24 witness: three blocks that together stay below the low-water mark
\* came out as one paragraph.
ShortBlocksOneParagraph ==
    /\ seg_pc = "done"
    /\ Len(content.elements) >= 3
    /\ Sum(ChunkLines(content.elements)) < LowWaterMark
    /\ Len(paragraphs) = 1
    /\ paragraphs[1].lines = ChunkLines(content.elements)

\* C25: markup without a block element is split into lines that are
\* accumulated under the low-water rule: no paragraph takes another line
\* once it has reached the low-water mark.
FallbackAccumulates ==
    (seg_pc = "done" /\ content.kind = "inline") =>
        \A k \in 1..Len(paragraphs) :
            LET l == paragraphs[k].lines
            IN  Len(l) > 1 =>
                    JoinedLength(SubSeq(l, 1, Len(l) - 1)) < LowWaterMark

\* C28: when no accumulated chunk is longer than the high-water mark, the
\* paragraphs are the chunks themselves, in the markup of the document.
ShortChunksKeepMarkup ==
    (seg_pc = "done" /\ content.kind = "html") =>
        LET result == MergeElements(content.elements)
        IN  (\A k \in 1..Len(result) :
                JoinedLength(ChunkLines(result[k])) <= max_text_length)
            => paragraphs = [k \in 1..Len(result) |->
                                Paragraph(ChunkLines(result[k]), "source")]

\* C30: the text of the paragraphs, read in order, is the text of the
\* document in document order, every piece exactly once.
TextKeptOnce ==
    (seg_pc = "done" /\ content.kind = "tree") =>
        Flatten([k \in 1..Len(paragraphs) |-> paragraphs[k].lines])
            = TextBelow(content.nodes, 0, 1)

(* ------------------------------- Part III: upload, ingestion, paragraph edits *)
\* The books that are uploaded: markup of up to MaxBookElems one-line block
\* elements, and the empty file.
BookElements == {[lines |-> <<n>>, sep |-> 1] : n \in {900, 5000}}

IngestDocs ==
    {[kind |-> "html", elements |-> es, lines |-> <<>>] :
        es \in SeqsUpTo(BookElements, MaxBookElems) \ {<<>>}}
    \cup {[kind |-> "text", elements |-> <<>>, lines |-> <<>>]}

\* What update_paragraph is given as content: "<p>ab</p>" and "ab".
EditContents == {[text |-> 2, markup |-> WrapLength], [text |-> 2, markup |-> 0]}

\* process_book 37-49: one row per paragraph, numbered by enumerate(.., 1),
\* word_count the length of the stripped text.
NewRows(ps) ==
    [i \in 1..Len(ps) |->
        [sequence |-> i,
         text |-> StrippedLength(ps[i]),
         markup |-> RawLength(ps[i]) - StrippedLength(ps[i]),
         word_count |-> StrippedLength(ps[i])]]

RemoveAt(seq, k) == [i \in 1..(Len(seq) - 1) |-> IF i < k THEN seq[i] ELSE seq[i + 1]]

\* upload_book 86-99: the uploaded file is written to UPLOAD_DIR.  When the
\* copy raises the handler answers 500; the file may have been created.
SaveUpload ==
    /\ upload = "idle"
    /\ \/ files' = files \cup {"source"} /\ upload' = "saved"
       \/ \E created \in BOOLEAN :
             /\ files' = IF created THEN files \cup {"source"} ELSE files
             /\ upload' = "error_save"
    /\ UNCHANGED <<coordVars, imageVars, genVars, segVars, book, rows>>

\* upload_book 104-132: the cover is extracted (a failure is swallowed:
\* no cover), the books row is added and committed.  A commit that raises
\* is not caught.
CreateBook ==
    /\ upload = "saved"
    /\ \E cover \in BOOLEAN :
          /\ files' = IF cover THEN files \cup {"cover"} ELSE files
          /\ \/ /\ book' = [exists |-> TRUE, cover_image |-> cover,
                         total_paragraphs |-> 0]
                /\ upload' = "processing"
             \/ /\ upload' = "error_commit"
                /\ UNCHANGED book
    /\ UNCHANGED <<coordVars, imageVars, genVars, segVars, rows>>

\* process_book 27-29, _read_file 70-100: the file is decoded; for an epub or
\* a mobi file the images are written under book_images/book_<id> by
\* _save_image_bytes (335-359) while the items are read.  Decoding can raise
\* before any image is written, reading can raise after some were.
ReadFile ==
    /\ upload = "processing"
    /\ seg_pc = "idle"
    /\ \/ \E doc \in IngestDocs, images \in BOOLEAN :
             /\ content' = doc
             /\ seg_pc' = "split"
             /\ files' = IF images THEN files \cup {"images"} ELSE files
             /\ UNCHANGED upload
       \/ /\ upload' = "failed_decode"
          /\ UNCHANGED <<content, seg_pc, files>>
       \/ /\ upload' = "failed_relocate"
          /\ files' = files \cup {"images"}
          /\ UNCHANGED <<content, seg_pc>>
    /\ UNCHANGED <<coordVars, imageVars, genVars, paragraphs, book, rows>>

\* process_book 38-56: the rows are added, total_paragraphs is set, one
\* commit.  A commit that raises persists nothing.
PersistParagraphs ==
    /\ upload = "processing"
    /\ seg_pc = "done"
    /\ \/ /\ rows' = NewRows(paragraphs)
          /\ book' = [book EXCEPT !.total_paragraphs = Len(paragraphs)]
          /\ upload' = "done"
       \/ /\ upload' = "failed_persist"
          /\ UNCHANGED <<rows, book>>
    /\ seg_pc' = "idle"
    /\ UNCHANGED <<coordVars, imageVars, genVars, content, paragraphs, files>>

\* upload_book 137-146, the except block: the books row is deleted and the
\* deletion committed, the uploaded file is removed, the cover is removed,
\* HTTP 500 is raised.  A commit that raises here is not caught: the
\* handler ends there.  Neither is an os.remove (line 140) that raises:
\* the row is gone, the cover is not looked at.  delete_cover 204-214
\* swallows its own failure and is taken to succeed here.
Rollback ==
    /\ upload \in {"failed_decode", "failed_relocate", "failed_persist"}
    /\ \/ /\ book' = NoBook
          /\ rows' = <<>>
          /\ files' = files \ {"source", "cover"}
          /\ upload' = "error_processing"
       \/ /\ upload' = "error_rollback"
          /\ UNCHANGED <<book, rows, files>>
       \/ /\ book' = NoBook
          /\ rows' = <<>>
          /\ upload' = "error_remove"
          /\ UNCHANGED files
    /\ UNCHANGED <<coordVars, imageVars, genVars, segVars>>

\* A variant of delete_paragraph that leaves the later sequence numbers alone.
delete_paragraph_unshifted(k) ==
    /\ upload = "done"
    /\ book.exists
    /\ k \in 1..Len(rows)
    /\ rows' = RemoveAt(rows, k)
    /\ book' = [book EXCEPT !.total_paragraphs = Len(rows) - 1]
    /\ UNCHANGED <<coordVars, imageVars, genVars, segVars, files, upload>>

\* delete_paragraph 243-300 for the k-th row of the book: the row goes, the
\* rows with a larger sequence move down by one, total_paragraphs is the
\* count of rows minus one; whether the count already misses the deleted row
\* depends on the session flushing before the query.
delete_paragraph(k) ==
    /\ upload = "done"
    /\ book.exists
    /\ k \in 1..Len(rows)
    /\ LET deleted_sequence == rows[k].sequence
           kept == RemoveAt(rows, k)
       IN  rows' = [i \in 1..Len(kept) |->
                       IF kept[i].sequence > deleted_sequence
                       THEN [kept[i] EXCEPT !.sequence = @ - 1]
                       ELSE kept[i]]
    /\ \E autoflush \in BOOLEAN :
          book' = [book EXCEPT !.total_paragraphs =
                      (IF autoflush THEN Len(rows) - 1 ELSE Len(rows)) - 1]
    /\ UNCHANGED <<coordVars, imageVars, genVars, segVars, files, upload>>

\* update_paragraph 205-237 for the k-th row of the book
update_paragraph(k, new) ==
    /\ upload = "done"
    /\ book.exists
    /\ k \in 1..Len(rows)
    /\ rows' = [rows EXCEPT ![k].text = new.text,
                            ![k].markup = new.markup,
                            ![k].word_count = new.text + new.markup]
    /\ UNCHANGED <<coordVars, imageVars, genVars, segVars, book, files, upload>>

BookInit == CoordIdle /\ SegIdle /\ BookIdle /\ ImageIdle /\ GenIdle

BookNext ==
    \/ SaveUpload
    \/ CreateBook
    \/ ReadFile
    \/ SplitHtml
    \/ SplitText
    \/ PersistParagraphs
    \/ Rollback
    \/ \E k \in 1..MaxRows : delete_paragraph(k)
    \/ \E k \in 1..MaxRows, new \in EditContents : update_paragraph(k, new)

SpecBook == BookInit /\ [][BookNext]_vars

(* -------------------------------------------------- Part III: properties *)
\* C6: after a successful ingestion and after any sequence of
\* delete_paragraph operations the sequence numbers of the book's paragraphs
\* are exactly 1..N, N the number of its paragraphs, none of them twice.
SequenceContiguous ==
    upload = "done" =>
        /\ {rows[i].sequence : i \in 1..Len(rows)} = 1..Len(rows)
        /\ \A i, j \in 1..Len(rows) : rows[i].sequence = rows[j].sequence => i = j

\* C6 witness: the first paragraph has been deleted and several remain; the
\* row that now carries sequence 1 is a later paragraph of the ingestion.
DeletedBeforeOthers ==
    /\ upload = "done"
    /\ Len(rows) >= 2
    /\ Len(rows) < Len(paragraphs)
    /\ rows[1].sequence = 1
    /\ rows[1].text # StrippedLength(paragraphs[1])
    /\ \E k \in 2..Len(paragraphs) : rows[1].text = StrippedLength(paragraphs[k])

\* C7 (as stated): every persisted paragraph has word_count equal to the
\* length of the stripped text of its content.
WordCountIsStrippedLength ==
    \A i \in 1..Len(rows) : rows[i].word_count = rows[i].text

\* C10 (as stated): once upload_book has answered with its processing error,
\* no book row, no paragraph row and no file of the upload remains.
NothingLeftAfterFailure ==
    upload = "error_processing" =>
        /\ book = NoBook
        /\ rows = <<>>
        /\ files = {}

\* The empty file: no markup, and no line is left of content.split("\n")
\* once the blank ones are dropped.
EmptyDocument == [kind |-> "text", elements |-> <<>>, lines |-> <<>>]

\* C13: the empty document is segmented into zero paragraphs, and once its
\* ingestion has committed the book is there with no paragraph row and
\* total_paragraphs = 0.
EmptyYieldsNothing ==
    content = EmptyDocument =>
        /\ seg_pc = "done" => paragraphs = <<>>
        /\ upload = "done" =>
               /\ book.exists
               /\ rows = <<>>
               /\ book.total_paragraphs = 0

\* C13 witness: the ingestion of the empty document has completed.
EmptyBookIngested ==
    /\ content = EmptyDocument
    /\ upload = "done"
    /\ book.exists
    /\ rows = <<>>

\* C26: the compensation after a failed ingestion runs to its end whatever
\* one of its steps does: the cover is removed and the caller gets the
\* ingestion-failure error.
RollbackRunsToItsEnd ==
    [][Rollback => /\ upload' = "error_processing"
                   /\ "cover" \notin files']_vars

(* ------------------------------------------- Part IV: image relocation *)
\* Book ids.  An id is used again when the highest books row was deleted,
\* and nothing removes uploads/book_images/book_<id>.
BookIds == {1, 2}

\* Image bytes: their length, their md5 digest as <<first 16 hex digits, the
\* other 16>>, and the extension their leading bytes stand for ("" if none).
NoBytes == [len |-> 0, md5 |-> <<0, 0>>, magic |-> ""]
ImageBytes ==
    { [len |-> 1, md5 |-> <<1, 1>>, magic |-> ".png"],
      [len |-> 1, md5 |-> <<1, 2>>, magic |-> ""] }

SourceNames == {"a.PNG", "fig"}

\* os.path.splitext(source_name or "")[1].lower(): book_processor.py 320
splitext_lower(source_name) ==
    CASE source_name = "a.PNG" -> ".png"
      [] OTHER -> ""

KnownExts == {".jpg", ".jpeg", ".png", ".gif", ".webp", ".bmp", ".svg"}

\* book_processor.py 319-333
_guess_image_ext(source_name, image_data) ==
    LET ext == splitext_lower(source_name)
    IN  IF ext \in KnownExts THEN ext
        ELSE IF image_data.magic # "" THEN image_data.magic
        ELSE ".jpg"

\* f"/book-images/book_{book_id}/img_{digest[:16]}{ext}"
ImageUrl(b, digest, ext) == [book |-> b, name |-> <<digest[1], ext>>]
NoUrl == [book |-> 0, name |-> <<0, "">>]
UrlOf(f) == [book |-> f.book, name |-> f.name]

\* One call of the log: its arguments, what it returned, whether it wrote.
Relocation(source_name, image_data, url, wrote) ==
    [source_name |-> source_name, image_data |-> image_data,
     url |-> url, wrote |-> wrote]

\* process_book begins: book_processor.py 25-27
process_book(b) ==
    /\ ingestions < MaxIngestions
    /\ ingestions' = ingestions + 1
    /\ book_id' = b
    /\ _saved_image_map' = [k \in {} |-> 0]
    /\ relocated' = <<>>
    /\ UNCHANGED <<coordVars, segVars, bookVars, genVars, image_files>>

\* book_processor.py 346-359: the path taken on a cache miss
StoreImage(source_name, image_data) ==
    LET digest == image_data.md5
        cache_key == <<book_id, digest>>
        ext == _guess_image_ext(source_name, image_data)
        url == ImageUrl(book_id, digest, ext)
        exists == \E f \in image_files : UrlOf(f) = url
    IN  /\ image_files' =
              IF exists THEN image_files
              ELSE image_files \cup
                       {[book |-> url.book, name |-> url.name, data |-> image_data]}
        /\ _saved_image_map' =
              [k \in DOMAIN _saved_image_map \cup {cache_key} |->
                  IF k = cache_key THEN url ELSE _saved_image_map[k]]
        /\ relocated' = Append(relocated,
                               Relocation(source_name, image_data, url, ~exists))

\* _save_image_bytes without the cache lookup of lines 343-344
_save_image_bytes_uncached(source_name, image_data) ==
    /\ book_id # 0
    /\ Len(relocated) < MaxRelocations
    /\ IF image_data.len = 0
       THEN /\ relocated' = Append(relocated,
                                   Relocation(source_name, image_data, NoUrl, FALSE))
            /\ UNCHANGED <<_saved_image_map, image_files>>
       ELSE StoreImage(source_name, image_data)
    /\ UNCHANGED <<coordVars, segVars, bookVars, genVars, book_id, ingestions>>

\* book_processor.py 335-359
_save_image_bytes(source_name, image_data) ==
    /\ book_id # 0
    /\ Len(relocated) < MaxRelocations
    /\ IF image_data.len = 0
       THEN /\ relocated' = Append(relocated,
                                   Relocation(source_name, image_data, NoUrl, FALSE))
            /\ UNCHANGED <<_saved_image_map, image_files>>
       ELSE IF <<book_id, image_data.md5>> \in DOMAIN _saved_image_map
       THEN /\ relocated' = Append(relocated,
                   Relocation(source_name, image_data,
                              _saved_image_map[<<book_id, image_data.md5>>], FALSE))
            /\ UNCHANGED <<_saved_image_map, image_files>>
       ELSE StoreImage(source_name, image_data)
    /\ UNCHANGED <<coordVars, segVars, bookVars, genVars, book_id, ingestions>>

ImageInit == CoordIdle /\ SegIdle /\ BookIdle /\ ImageIdle /\ GenIdle

ImageNext ==
    \/ \E b \in BookIds : process_book(b)
    \/ \E source_name \in SourceNames, image_data \in ImageBytes \cup {NoBytes} :
           _save_image_bytes(source_name, image_data)

SpecImage == ImageInit /\ [][ImageNext]_vars

(* -------------------------------------------------- Part IV: properties *)
\* C11: within one ingestion, every relocation of the same image bytes
\* returns the same URL, exactly one file is stored under that URL, and a
\* step adds a file only under a path where no file was.
StoredOnce ==
    /\ [](\A i \in DOMAIN relocated :
             relocated[i].image_data.len > 0 =>
                 /\ \A j \in DOMAIN relocated :
                        relocated[j].image_data = relocated[i].image_data
                            => relocated[j].url = relocated[i].url
                 /\ Cardinality({f \in image_files :
                                     UrlOf(f) = relocated[i].url}) = 1)
    /\ [][/\ image_files \subseteq image_files'
          /\ \A f \in image_files' \ image_files :
                 ~\E g \in image_files : UrlOf(g) = UrlOf(f)]_vars

\* C11 witness: the same bytes were relocated twice under source names that
\* stand for different extensions, the first of them writing the file.
RelocatedTwice ==
    \E i, j \in DOMAIN relocated :
        /\ i < j
        /\ relocated[i].image_data = relocated[j].image_data
        /\ relocated[i].image_data.len > 0
        /\ _guess_image_ext(relocated[i].source_name, relocated[i].image_data)
               # _guess_image_ext(relocated[j].source_name, relocated[j].image_data)
        /\ relocated[i].wrote

(* ------------------------------- Part V: generate_questions, call by call *)
\* A prompt is the sequence of its parts: the base prompt (ai_service.py
\* 124-150) and, at a retry, the note of lines 162-164.
base_prompt == <<[part |-> "base_prompt", retry |-> 0]>>
RetryNote(n) == [part |-> "note", retry |-> n]

\* ai_service.py 160-166
Prompt(n) == IF n > 0 THEN Append(base_prompt, RetryNote(n)) ELSE base_prompt

\* One pass of the loop of generate_questions, ai_service.py 155-194, with
\* the return of line 198 when the loop breaks: the prompt is sent, o is what
\* _call_openai_api does, the answer is validated.
AttemptWith(o, prompt) ==
    /\ gen_pc = "loop"
    /\ prompts' = Append(prompts, prompt)
    /\ answers' = Append(answers, o)
    /\ IF _validate_questions_format(o)
       THEN /\ gen_pc' = "returned"
            /\ returned' = o.items
            /\ UNCHANGED gen_attempt
       ELSE IF gen_attempt >= max_retries
            THEN /\ gen_pc' = "returned"
                 /\ returned' = DefaultQuestions
                 /\ UNCHANGED gen_attempt
            ELSE /\ gen_attempt' = gen_attempt + 1
                 /\ UNCHANGED <<gen_pc, returned>>
    /\ UNCHANGED <<coordVars, segVars, bookVars, imageVars>>

\* A pass that sends the base prompt at every attempt
Attempt_plain(o) == AttemptWith(o, base_prompt)

Attempt(o) == AttemptWith(o, Prompt(gen_attempt))

\* A call of generate_questions begins: ai_service.py 152-153
GenInit ==
    /\ CoordIdle
    /\ SegIdle
    /\ BookIdle
    /\ ImageIdle
    /\ gen_pc = "loop"
    /\ gen_attempt = 0
    /\ prompts = <<>>
    /\ answers = <<>>
    /\ returned = <<>>

GenNext == \E o \in BackendOutcomes : Attempt(o)

SpecGen == GenInit /\ [][GenNext]_vars

(* --------------------------------------------------- Part V: properties *)
\* C22: one call of generate_questions makes between one and
\* max_retries + 1 backend calls; every answer before the last one failed
\* (raised or did not validate), so the first answer that validates ends the
\* call; the first prompt is the base prompt and every later one is the base
\* prompt with something appended.
RetriesBounded ==
    /\ Len(prompts) = Len(answers)
    /\ Len(answers) <= max_retries + 1
    /\ gen_pc = "returned" => Len(answers) >= 1
    /\ \A i \in 1..Len(answers) :
           (i < Len(answers) \/ gen_pc = "loop")
               => ~_validate_questions_format(answers[i])
    /\ \A i \in 1..Len(prompts) :
           IF i = 1
           THEN prompts[i] = base_prompt
           ELSE /\ Len(prompts[i]) > Len(base_prompt)
                /\ SubSeq(prompts[i], 1, Len(base_prompt)) = base_prompt

\* C22 witness: two attempts failed and the third answer validated.
ThirdAnswerTaken ==
    /\ gen_pc = "returned"
    /\ Len(answers) = max_retries + 1
    /\ _validate_questions_format(answers[max_retries + 1])
    /\ returned = answers[max_retries + 1].items

\* C23 (as stated): whatever the backend does, generate_questions returns
\* five items, each with the required keys, a mapping with the options A, B,
\* C and D, and a correct answer among A, B, C, D.
ReturnsWellFormed ==
    gen_pc = "returned" =>
        /\ Len(returned) = 5
        /\ \A i \in 1..Len(returned) :
               /\ RequiredKeys \subseteq returned[i].keys
               /\ returned[i].options_kind = "dict"
               /\ OptionKeys \subseteq returned[i].option_keys
               /\ returned[i].correct_answer \in OptionKeys

====
